---- MODULE Spec2Model ----
(***************************************************************************)
(* A model of redis-bloom: a Bloom filter client whose bit arrays are      *)
(* Redis bitmaps (src/src/bloom.ts, src/src/redis.ts).                      *)
(*                                                                         *)
(* An unsigned 32-bit integer is the pair <<hi, lo>> of its 16-bit halves, *)
(* so that the 32-bit wraparound of the double hashing is computed exactly *)
(* without leaving the integers TLC can represent.                         *)
(***************************************************************************)
EXTENDS Integers, Sequences, FiniteSets, TLC

\* ------------------------------------------------------------------ bounds

\* The most filter handles get() hands out in one run.
MaxHandles == 2

\* The most calls started in a run whose calls overlap.
MaxCalls == 3

\* ------------------------------------------------------------- input sets

\* Filter names (Redis keys).
Names == {"A", "B"}

\* The items of the repository's tests.
Items == {"foo", "bar", "baz"}

\* ----------------------------------------------------------------- state

VARIABLES
    conn,       \* "none" before create, then "open", "closed" after close
    client,     \* <<>> or <<the client's fields>>
    handles,    \* the handles get() has returned, in order
    store,      \* the Redis store
    lastOp,     \* the call that has just returned, and what it returned
    sent,       \* the calls the last call made on the Redis adapter, in order
    computed,   \* the positions the last call computed, per item given
    asked,      \* history: the name each handle was asked for
    added,      \* history: per name, the items of the adds whose batch the
                \* store has executed since the name was last cleared
    seqStore,   \* history: the store had every add(x1, .., xn) been made as
                \* add(x1); ..; add(xn)
    memo,       \* history: per item, the positions computed for it first
    run,        \* the kind of run: whether sent and computed are logged,
                \* whether the memo is kept, whether the transport may lose
                \* a batch or its reply, and whether found is kept
    found,      \* history: per name, the items that the queries which
                \* succeeded have returned since the name was last cleared
    calls,      \* runs whose calls overlap: every call started, in order,
                \* with its position in the code and what it holds
    pipes,      \* runs whose calls overlap: the queue of every pipeline made
    hist,       \* whether this run keeps the long history below
    past        \* history (when hist): per name, the items of every add that
                \* the store ever executed, and the kind of the last write

vars == <<conn, client, handles, store, lastOp, sent, computed, asked, added, seqStore, memo, run, found, calls, pipes, hist, past>>

\* ----------------------------------------------------------- 32-bit words

Half == 256 * 256

U32(hi, lo) == <<hi, lo>>

\* A variant that reads the four bytes big endian.
getUint32BigEndian(bytes, offsetInBytes) ==
    U32(bytes[offsetInBytes + 2] + 256 * bytes[offsetInBytes + 1],
        bytes[offsetInBytes + 4] + 256 * bytes[offsetInBytes + 3])

\* The word of four bytes read little endian (DataView.getUint32(_, true)).
getUint32(bytes, offsetInBytes) ==
    U32(bytes[offsetInBytes + 3] + 256 * bytes[offsetInBytes + 4],
        bytes[offsetInBytes + 1] + 256 * bytes[offsetInBytes + 2])

\* A variant that wraps each 16-bit half on its own, dropping the carry.
CombinedHashDropCarry(hash1, i, hash2) ==
    U32((hash1[1] + i * hash2[1]) % Half, (hash1[2] + i * hash2[2]) % Half)

\* (hash1 + i * hash2) >>> 0 for 0 <= i: the sum modulo 2^32.
CombinedHash(hash1, i, hash2) ==
    LET lo == hash1[2] + i * hash2[2]
        hi == hash1[1] + i * hash2[1] + (lo \div Half)
    IN  U32(hi % Half, lo % Half)

Abs(n) == IF n < 0 THEN 0 - n ELSE n

\* JavaScript's x % n for a word x >= 0 and an integer n # 0: the result has
\* the sign of x, so it is x modulo |n|.
JsRemainder(x, n) ==
    LET d == Abs(n)
    IN  ((x[1] % d) * (Half % d) + (x[2] % d)) % d

\* -------------------------------------------------------- hash functions

\* Bytes 0..7 of the SHA-256 digest of each item's UTF-8 encoding
\* (crypto.subtle.digest("SHA-256", dataBytes)).
Sha256Digest(data) ==
    CASE data = "foo" -> <<44, 38, 180, 107, 104, 255, 198, 143>>
      [] data = "bar" -> <<252, 222, 43, 46, 219, 165, 107, 244>>
      [] data = "baz" -> <<186, 165, 160, 150, 77, 51, 32, 251>>

toUint32UsingSha256(data, offsetInBytes) ==
    getUint32(Sha256Digest(data), offsetInBytes)

\* Two hash functions a caller supplies to create(): any function from
\* strings to unsigned 32-bit integers is allowed.  These two wrap around
\* 2^32 (foo, baz), give one item a single repeated position (bar) and,
\* with 7 bits and 2 hashes, make baz a false positive of {foo, bar}.
customHashFn1(data) ==
    CASE data = "foo" -> U32(65535, 65535)
      [] data = "bar" -> U32(0, 5)
      [] data = "baz" -> U32(65535, 65534)

customHashFn2(data) ==
    CASE data = "foo" -> U32(0, 3)
      [] data = "bar" -> U32(0, 0)
      [] data = "baz" -> U32(0, 7)

\* A hash function value is named; applying it evaluates the named function.
HashFunctions == {"sha256At0", "sha256At4", "customHashFn1", "customHashFn2"}

ApplyHash(hashFunction, data) ==
    CASE hashFunction = "sha256At0" -> toUint32UsingSha256(data, 0)
      [] hashFunction = "sha256At4" -> toUint32UsingSha256(data, 4)
      [] hashFunction = "customHashFn1" -> customHashFn1(data)
      [] hashFunction = "customHashFn2" -> customHashFn2(data)

\* ---------------------------------------------------- bit-position engine

\* A variant whose positions depend on how many keys the store holds.
computeItemBitPositionsByStore(item, positionCount, bloomFilterSize, hashFunction1, hashFunction2) ==
    LET hash1 == ApplyHash(hashFunction1, item)
        hash2 == ApplyHash(hashFunction2, item)
    IN  [n \in 1..positionCount |->
            JsRemainder(CombinedHash(hash1, n - 1 + Cardinality(DOMAIN store), hash2),
                        bloomFilterSize)]

\* computeItemBitPositions: positions[i + 1] is the position of round i,
\* for i = 0 .. positionCount - 1 (no round when positionCount <= 0).
computeItemBitPositions(item, positionCount, bloomFilterSize, hashFunction1, hashFunction2) ==
    LET hash1 == ApplyHash(hashFunction1, item)
        hash2 == ApplyHash(hashFunction2, item)
    IN  [n \in 1..positionCount |->
            JsRemainder(CombinedHash(hash1, n - 1, hash2), bloomFilterSize)]

\* ------------------------------------------------------- the Redis store

\* The remote store: a function from the keys that exist to the set of
\* offsets whose bit is 1.  Bits are 0 until set; a key exists from the first
\* SETBIT on it until it is deleted.
EmptyStore == [k \in {} |-> {}]

BitsOf(s, key) == IF key \in DOMAIN s THEN s[key] ELSE {}

\* GETBIT key offset.
getBit(s, key, offset) == IF offset \in BitsOf(s, key) THEN 1 ELSE 0

\* SETBIT key offset value: the store afterwards.
setBit(s, key, offset, value) ==
    [k \in DOMAIN s \cup {key} |->
        IF k = key
        THEN IF value = 1 THEN BitsOf(s, key) \cup {offset}
                          ELSE BitsOf(s, key) \ {offset}
        ELSE s[k]]

\* A variant that empties the key's value instead of deleting the key.
delTruncating(s, key) ==
    [k \in DOMAIN s \cup {key} |-> IF k = key THEN {} ELSE s[k]]

\* DEL key: the store afterwards, and the number of keys deleted.
del(s, key) == [k \in DOMAIN s \ {key} |-> s[k]]

delReply(s, key) == IF key \in DOMAIN s THEN 1 ELSE 0

\* FLUSHALL: no key is left.
flushAll(s) == EmptyStore

\* One queued operation of a pipeline (client.multi()).
SetBitOp(key, offset, value) ==
    [op |-> "setBit", key |-> key, offset |-> offset, value |-> value]

\* A variant that reads a bit with SETBIT key offset 0, whose reply is the
\* bit as it was.
GetBitOpWriting(key, offset) ==
    [op |-> "setBit", key |-> key, offset |-> offset, value |-> 0]

GetBitOp(key, offset) ==
    [op |-> "getBit", key |-> key, offset |-> offset, value |-> 0]

\* multi.exec(): the queued operations run in submission order as one
\* transaction; replies[i] answers queue[i].
RECURSIVE exec(_, _)
exec(s, queue) ==
    IF queue = <<>>
    THEN [store |-> s, replies |-> <<>>]
    ELSE LET o == Head(queue)
             s1 == IF o.op = "setBit" THEN setBit(s, o.key, o.offset, o.value) ELSE s
             r == getBit(s, o.key, o.offset)
             rest == exec(s1, Tail(queue))
         IN  [store |-> rest.store, replies |-> <<r>> \o rest.replies]

\* ------------------------------------------------------ RedisBloomFilter

\* new RedisBloomFilter(redis, key, sizeInBits, hashesPerItem, hashFunction1,
\* hashFunction2): a handle holds the key and a copy of the client's
\* parameters; the connection it refers to is the client's.
RedisBloomFilter(key, sizeInBits, hashesPerItem, hashFunction1, hashFunction2) ==
    [key |-> key, sizeInBits |-> sizeInBits, hashesPerItem |-> hashesPerItem,
     hashFunction1 |-> hashFunction1, hashFunction2 |-> hashFunction2]

\* The positions of one item under a handle's parameters.
PositionsOf(filter, item) ==
    computeItemBitPositions(item, filter.hashesPerItem, filter.sizeInBits,
                            filter.hashFunction1, filter.hashFunction2)

\* A variant that stops after the item's first position.
SetBitOpsFirstOnly(filter, item) ==
    LET setPositions == PositionsOf(filter, item)
    IN  [n \in DOMAIN setPositions \cap {1} |-> SetBitOp(filter.key, setPositions[n], 1)]

\* The setBit operations one item queues: one per position, in order.
SetBitOps(filter, item) ==
    LET setPositions == PositionsOf(filter, item)
    IN  [n \in DOMAIN setPositions |-> SetBitOp(filter.key, setPositions[n], 1)]

\* A variant that starts a new pipeline for every item, so that only the
\* last item's operations are executed.
addPipelineLastItemOnly(filter, items) ==
    IF items = <<>> THEN <<>> ELSE SetBitOps(filter, items[Len(items)])

\* add, up to its exec: the pipeline after the loop over the items.
RECURSIVE addPipeline(_, _)
addPipeline(filter, items) ==
    IF items = <<>>
    THEN <<>>
    ELSE SetBitOps(filter, Head(items)) \o addPipeline(filter, Tail(items))

\* A variant that allocates the key even when no bit is set.
addTouchingKey(filter, s, items) ==
    LET after == exec(s, addPipeline(filter, items)).store
    IN  [k \in DOMAIN after \cup {filter.key} |-> BitsOf(after, k)]

\* A variant in which the batch of an add with items replaces the bitmap.
addReplacing(filter, s, items) ==
    IF items = <<>> THEN s ELSE exec(del(s, filter.key), addPipeline(filter, items)).store

\* add(...items): the store after the pipeline has executed.
add(filter, s, items) == exec(s, addPipeline(filter, items)).store

\* Array.from(new Set(...)): the first occurrences, in insertion order.
RECURSIVE ArrayFromSet(_, _)
ArrayFromSet(seen, seq) ==
    IF seq = <<>>
    THEN <<>>
    ELSE IF Head(seq) \in seen
         THEN ArrayFromSet(seen, Tail(seq))
         ELSE <<Head(seq)>> \o ArrayFromSet(seen \cup {Head(seq)}, Tail(seq))

RECURSIVE AllPositions(_, _)
AllPositions(filter, items) ==
    IF items = <<>>
    THEN <<>>
    ELSE PositionsOf(filter, Head(items)) \o AllPositions(filter, Tail(items))

\* positionsToKnowArray: the distinct positions of all the items.
positionsToKnowArray(filter, items) == ArrayFromSet({}, AllPositions(filter, items))

\* extractContainedItems, up to its exec: one getBit per distinct position.
extractPipeline(filter, items) ==
    LET arr == positionsToKnowArray(filter, items)
    IN  [i \in DOMAIN arr |-> GetBitOp(filter.key, arr[i])]

\* A variant that attributes the replies in reverse order.
setPositionsOfReversed(arr, results) ==
    {arr[Len(arr) + 1 - i] : i \in {j \in DOMAIN results : results[j] = 1}}

\* The positions whose reply is 1: results[i] answers positionsToKnowArray[i].
setPositionsOf(arr, results) ==
    {arr[i] : i \in {j \in DOMAIN results : results[j] = 1}}

\* A variant that asks for some position (Array.some) instead of every one.
matchedItemsSome(filter, items, setPositions) ==
    {items[j] : j \in {i \in DOMAIN items :
        \E n \in DOMAIN PositionsOf(filter, items[i]) :
            PositionsOf(filter, items[i])[n] \in setPositions}}

\* The items all of whose positions are in setPositions.
matchedItems(filter, items, setPositions) ==
    {items[j] : j \in {i \in DOMAIN items :
        \A n \in DOMAIN PositionsOf(filter, items[i]) :
            PositionsOf(filter, items[i])[n] \in setPositions}}

\* extractContainedItems(...items): the set it returns.
extractContainedItems(filter, s, items) ==
    LET arr == positionsToKnowArray(filter, items)
        results == exec(s, extractPipeline(filter, items)).replies
    IN  matchedItems(filter, items, setPositionsOf(arr, results))

\* ------------------------------------------------- RedisBloomFilterClient

\* A numeric parameter of create() is <<n>> when given and <<>> when omitted.
Undefined == <<>>

\* JavaScript's  value || fallback  on an optional number: undefined and 0
\* are falsy.
OrNumber(value, fallback) ==
    IF value = Undefined THEN fallback
    ELSE IF value[1] = 0 THEN fallback ELSE value[1]

\* value || fallback on an optional hash function.
OrHash(value, fallback) == IF value = "undefined" THEN fallback ELSE value

DefaultSizeInBits == 10000

DefaultHashesPerItem == 3

\* RedisBloomFilterClient.create(params): the client's fields.
create(params) ==
    [bloomFilterSizeInBits |-> OrNumber(params.bloomFilterSizeInBits, DefaultSizeInBits),
     hashesPerItem |-> OrNumber(params.hashesPerItem, DefaultHashesPerItem),
     hashFunction1 |-> OrHash(params.hashFunction1, "sha256At0"),
     hashFunction2 |-> OrHash(params.hashFunction2, "sha256At4")]

\* client.get(name): the handle it returns.
get(this, name) ==
    RedisBloomFilter(name, this.bloomFilterSizeInBits, this.hashesPerItem,
                     this.hashFunction1, this.hashFunction2)

\* A variant that clears with the bulk primitive.
clearEveryKey(s, name) == flushAll(s)

\* client.clear(name): the store after redis.del(name).
clear(s, name) == del(s, name)

\* client.clearAll(): the store after redis.flushAll().
clearAll(s) == flushAll(s)

\* ---------------------------------------------------------------- inputs

\* The parameters create() is called with.  Its signature accepts any
\* number, so zero and negative values are among them.
Params(m, k, h1, h2) ==
    [bloomFilterSizeInBits |-> m, hashesPerItem |-> k,
     hashFunction1 |-> h1, hashFunction2 |-> h2]

CreateParams ==
    { Params(Undefined, Undefined, "undefined", "undefined"),
      Params(<<0>>, <<0>>, "undefined", "undefined"),
      Params(<<7>>, <<2>>, "customHashFn1", "customHashFn2"),
      Params(<<0 - 5>>, <<0 - 1>>, "customHashFn1", "customHashFn2") }

NoParams == Params(Undefined, Undefined, "undefined", "undefined")

\* The argument lists of add and extractContainedItems: no item, one item,
\* two items, and the test's three items.
ItemLists ==
    { <<>>, <<"foo">>, <<"baz">>, <<"foo", "bar">>, <<"foo", "bar", "baz">> }

HandleIds == 1..MaxHandles

\* ------------------------------------------------- calls and histories

Op(kind, handle, name, items, outcome, result, params) ==
    [kind |-> kind, handle |-> handle, name |-> name, items |-> items,
     outcome |-> outcome, result |-> result, params |-> params]

\* One call on the adapter (NodeRedisAdapter): the batch it submits (exec),
\* how its promise settled, and the replies it resolved with.
AdapterCall(method, key, queue, settled, replies) ==
    [method |-> method, key |-> key, queue |-> queue, settled |-> settled,
     replies |-> replies]

Settled(ok) == IF ok THEN "fulfilled" ELSE "rejected"

\* What becomes of a batch on its way: it is delivered and answered, it is
\* lost before the store has run it, or the reply is lost after the store has
\* run it.
Transport == {"delivered", "lostRequest", "lostReply"}

NoneAdded == [n \in Names |-> {}]

NoPast == [n \in Names |-> [items |-> {}, last |-> "none"]]

NoMemo == [x \in {} |-> <<>>]

\* A run on a reliable transport that logs nothing and keeps no memo.
PlainRun == [log |-> FALSE, memo |-> FALSE, lossy |-> FALSE, found |-> FALSE]

InitRun(keepHistory, kind) ==
    /\ conn = "none"
    /\ client = <<>>
    /\ handles = <<>>
    /\ store = EmptyStore
    /\ lastOp = Op("none", 0, "", <<>>, "ok", {}, NoParams)
    /\ sent = <<>>
    /\ computed = <<>>
    /\ asked = <<>>
    /\ added = NoneAdded
    /\ seqStore = EmptyStore
    /\ memo = NoMemo
    /\ run = kind
    /\ found = NoneAdded
    /\ calls = <<>>
    /\ pipes = <<>>
    /\ hist = keepHistory
    /\ past = NoPast

InitWith(keepHistory) == InitRun(keepHistory, PlainRun)

Init == InitWith(FALSE)

InitHist == InitWith(TRUE)

InitLog == InitRun(FALSE, [log |-> TRUE, memo |-> FALSE, lossy |-> FALSE, found |-> FALSE])

InitMemo == InitRun(FALSE, [log |-> TRUE, memo |-> TRUE, lossy |-> FALSE, found |-> FALSE])

InitLossy == InitRun(FALSE, [log |-> TRUE, memo |-> FALSE, lossy |-> TRUE, found |-> FALSE])

InitFound == InitRun(FALSE, [log |-> FALSE, memo |-> FALSE, lossy |-> FALSE, found |-> TRUE])

\* add(x1, .., xn) made as n calls of one item each.
RECURSIVE addOneByOne(_, _, _)
addOneByOne(filter, s, items) ==
    IF items = <<>>
    THEN s
    ELSE addOneByOne(filter, add(filter, s, <<Head(items)>>), Tail(items))

ItemSet(items) == {items[i] : i \in DOMAIN items}

\* The long history after a write of the given kind to the given names.
PastAfter(kind, keys, items) ==
    IF hist
    THEN [n \in Names |->
            IF n \in keys
            THEN [items |-> past[n].items \cup items, last |-> kind]
            ELSE past[n]]
    ELSE past

\* What a run logs of a call: everything when it logs, nothing otherwise.
Logged(entries) == IF run.log THEN entries ELSE <<>>

\* setPositions / itemToPositionsMap: the positions a call computes, one
\* computeItemBitPositions per item given, in the order given.
Computed(filter, items) == [i \in DOMAIN items |-> PositionsOf(filter, items[i])]

\* The memo after a call has computed the positions of the given items.
MemoAfter(filter, items) ==
    IF run.memo
    THEN [x \in DOMAIN memo \cup ItemSet(items) |->
            IF x \in DOMAIN memo THEN memo[x] ELSE PositionsOf(filter, x)]
    ELSE memo

\* The items found after a query of the given names has returned the given
\* items.
FoundAfter(keys, items) ==
    IF run.found
    THEN [n \in Names |-> IF n \in keys THEN found[n] \cup items ELSE found[n]]
    ELSE found

\* How exec() settles: it rejects on a closed connection and when the batch
\* or its reply is lost.
ExecOutcome(transport) ==
    IF conn = "closed" THEN "ClosedError"
    ELSE IF transport = "delivered" THEN "ok" ELSE "StoreUnavailableError"

\* Whether the store runs the batch.
ExecReachesStore(transport) == conn = "open" /\ transport # "lostRequest"

\* pipeline.exec() of the given queue, as the caller sees it settle.
ExecCall(key, queue, transport) ==
    AdapterCall("exec", key, queue, Settled(ExecOutcome(transport) = "ok"),
                IF ExecOutcome(transport) = "ok" THEN exec(store, queue).replies ELSE <<>>)

\* ---------------------------------------------------------------- actions

\* RedisBloomFilterClient.create(params).  NodeRedisAdapter.create connects
\* first; when the server cannot be reached it throws and no client exists.
Create(p, reachable) ==
    /\ conn = "none"
    /\ IF reachable
       THEN /\ conn' = "open"
            /\ client' = <<create(p)>>
            /\ lastOp' = Op("create", 0, "", <<>>, "ok", {}, p)
       ELSE /\ UNCHANGED <<conn, client>>
            /\ lastOp' = Op("create", 0, "", <<>>, "ConnectionError", {}, p)
    /\ sent' = Logged(<<AdapterCall("connect", "", <<>>, Settled(reachable), <<>>)>>)
    /\ computed' = <<>>
    /\ UNCHANGED <<handles, store, asked, added, seqStore, memo, run, found, calls, pipes, hist, past>>

\* A variant in which a handle never shares its key with an earlier handle.
GetOwnKey(name) ==
    /\ conn # "none"
    /\ Len(handles) < MaxHandles
    /\ LET taken == {handles[h].key : h \in DOMAIN handles}
           key == IF name \in taken /\ Names \ taken # {}
                  THEN CHOOSE n \in Names \ taken : TRUE
                  ELSE name
       IN  handles' = Append(handles, get(client[1], key))
    /\ asked' = Append(asked, name)
    /\ lastOp' = Op("get", Len(handles) + 1, name, <<>>, "ok", {}, NoParams)
    /\ sent' = <<>>
    /\ computed' = <<>>
    /\ UNCHANGED <<conn, client, store, added, seqStore, memo, run, found, calls, pipes, hist, past>>

\* A variant that allocates the key of the handle in the store.
GetTouchingStore(name) ==
    /\ conn # "none"
    /\ Len(handles) < MaxHandles
    /\ handles' = Append(handles, get(client[1], name))
    /\ asked' = Append(asked, name)
    /\ lastOp' = Op("get", Len(handles) + 1, name, <<>>, "ok", {}, NoParams)
    /\ store' = IF conn = "open" THEN setBit(store, name, 0, 0) ELSE store
    /\ sent' = <<>>
    /\ computed' = <<>>
    /\ UNCHANGED <<conn, client, added, seqStore, memo, run, found, calls, pipes, hist, past>>

\* client.get(name): builds a handle; the connection is not used.
Get(name) ==
    /\ conn # "none"
    /\ Len(handles) < MaxHandles
    /\ handles' = Append(handles, get(client[1], name))
    /\ asked' = Append(asked, name)
    /\ lastOp' = Op("get", Len(handles) + 1, name, <<>>, "ok", {}, NoParams)
    /\ sent' = <<>>
    /\ computed' = <<>>
    /\ UNCHANGED <<conn, client, store, added, seqStore, memo, run, found, calls, pipes, hist, past>>

\* A variant that swallows the rejection of exec().
AddSwallowingRejection(h, items, transport) ==
    /\ transport # "delivered" => run.lossy
    /\ conn # "none"
    /\ h \in DOMAIN handles
    /\ LET filter == handles[h]
       IN  /\ IF ExecReachesStore(transport)
              THEN /\ store' = add(filter, store, items)
                   /\ seqStore' = addOneByOne(filter, seqStore, items)
                   /\ added' = [added EXCEPT ![asked[h]] = @ \cup ItemSet(items)]
                   /\ past' = PastAfter("add", {asked[h]}, ItemSet(items))
              ELSE UNCHANGED <<store, seqStore, added, past>>
           /\ sent' = Logged(<<ExecCall(filter.key, addPipeline(filter, items), transport)>>)
           /\ computed' = Logged(Computed(filter, items))
           /\ memo' = MemoAfter(filter, items)
    /\ lastOp' = Op("add", h, asked[h], items, "ok", {}, NoParams)
    /\ UNCHANGED <<conn, client, handles, asked, run, found, calls, pipes, hist>>

\* A variant that executes one batch per item.
AddBatchPerItem(h, items, transport) ==
    /\ transport # "delivered" => run.lossy
    /\ conn # "none"
    /\ h \in DOMAIN handles
    /\ LET filter == handles[h]
       IN  /\ IF ExecReachesStore(transport)
              THEN /\ store' = add(filter, store, items)
                   /\ seqStore' = addOneByOne(filter, seqStore, items)
                   /\ added' = [added EXCEPT ![asked[h]] = @ \cup ItemSet(items)]
                   /\ past' = PastAfter("add", {asked[h]}, ItemSet(items))
              ELSE UNCHANGED <<store, seqStore, added, past>>
           /\ sent' = Logged([i \in DOMAIN items |->
                                 ExecCall(filter.key, SetBitOps(filter, items[i]), transport)])
           /\ computed' = Logged(Computed(filter, items))
           /\ memo' = MemoAfter(filter, items)
    /\ lastOp' = Op("add", h, asked[h], items, ExecOutcome(transport), {}, NoParams)
    /\ UNCHANGED <<conn, client, handles, asked, run, found, calls, pipes, hist>>

\* filter.add(...items) through handle h: the positions are computed and
\* queued, then exec() is awaited once; when it rejects, add rejects with the
\* same error.
Add(h, items, transport) ==
    /\ transport # "delivered" => run.lossy
    /\ conn # "none"
    /\ h \in DOMAIN handles
    /\ LET filter == handles[h]
       IN  /\ IF ExecReachesStore(transport)
              THEN /\ store' = add(filter, store, items)
                   /\ seqStore' = addOneByOne(filter, seqStore, items)
                   /\ added' = [added EXCEPT ![asked[h]] = @ \cup ItemSet(items)]
                   /\ past' = PastAfter("add", {asked[h]}, ItemSet(items))
              ELSE UNCHANGED <<store, seqStore, added, past>>
           /\ sent' = Logged(<<ExecCall(filter.key, addPipeline(filter, items), transport)>>)
           /\ computed' = Logged(Computed(filter, items))
           /\ memo' = MemoAfter(filter, items)
    /\ lastOp' = Op("add", h, asked[h], items, ExecOutcome(transport), {}, NoParams)
    /\ UNCHANGED <<conn, client, handles, asked, run, found, calls, pipes, hist>>

\* A variant that submits the batch again when exec() rejects.
ExtractResubmitting(h, items, transport) ==
    /\ transport # "delivered" => run.lossy
    /\ conn # "none"
    /\ h \in DOMAIN handles
    /\ LET filter == handles[h]
           first == ExecCall(filter.key, extractPipeline(filter, items), transport)
           again == ExecCall(filter.key, extractPipeline(filter, items), "delivered")
       IN  /\ lastOp' = Op("extractContainedItems", h, asked[h], items,
                           ExecOutcome("delivered"),
                           IF ExecOutcome("delivered") = "ok"
                           THEN extractContainedItems(filter, store, items)
                           ELSE {},
                           NoParams)
           /\ sent' = Logged(IF first.settled = "rejected" THEN <<first, again>> ELSE <<first>>)
           /\ computed' = Logged(Computed(filter, items))
           /\ memo' = MemoAfter(filter, items)
           /\ found' = FoundAfter({asked[h]}, lastOp'.result)
    /\ UNCHANGED <<conn, client, handles, store, asked, added, seqStore, run, calls, pipes, hist, past>>

\* filter.extractContainedItems(...items) through handle h: exec() is
\* awaited once; when it rejects, the call rejects and returns no set.  The
\* store is left as the batch leaves it.
ExtractContainedItems(h, items, transport) ==
    /\ transport # "delivered" => run.lossy
    /\ conn # "none"
    /\ h \in DOMAIN handles
    /\ LET filter == handles[h]
       IN  /\ lastOp' = Op("extractContainedItems", h, asked[h], items,
                           ExecOutcome(transport),
                           IF ExecOutcome(transport) = "ok"
                           THEN extractContainedItems(filter, store, items)
                           ELSE {},
                           NoParams)
           /\ store' = IF ExecReachesStore(transport)
                       THEN exec(store, extractPipeline(filter, items)).store
                       ELSE store
           /\ sent' = Logged(<<ExecCall(filter.key, extractPipeline(filter, items), transport)>>)
           /\ computed' = Logged(Computed(filter, items))
           /\ memo' = MemoAfter(filter, items)
           /\ found' = FoundAfter({asked[h]}, lastOp'.result)
    /\ UNCHANGED <<conn, client, handles, asked, added, seqStore, run, calls, pipes, hist, past>>

\* client.clear(name).
Clear(name) ==
    /\ conn # "none"
    /\ IF conn = "open"
       THEN /\ store' = clear(store, name)
            /\ seqStore' = clear(seqStore, name)
            /\ added' = [added EXCEPT ![name] = {}]
            /\ found' = [found EXCEPT ![name] = {}]
            /\ past' = PastAfter("clear", {name}, {})
            /\ lastOp' = Op("clear", 0, name, <<>>, "ok", {}, NoParams)
       ELSE /\ UNCHANGED <<store, seqStore, added, found, past>>
            /\ lastOp' = Op("clear", 0, name, <<>>, "ClosedError", {}, NoParams)
    /\ sent' = Logged(<<AdapterCall("del", name, <<>>, Settled(conn = "open"), <<>>)>>)
    /\ computed' = <<>>
    /\ UNCHANGED <<conn, client, handles, asked, memo, run, calls, pipes, hist>>

\* client.clearAll().
ClearAll ==
    /\ conn # "none"
    /\ IF conn = "open"
       THEN /\ store' = clearAll(store)
            /\ seqStore' = clearAll(seqStore)
            /\ added' = NoneAdded
            /\ found' = NoneAdded
            /\ past' = PastAfter("clearAll", Names, {})
            /\ lastOp' = Op("clearAll", 0, "", <<>>, "ok", {}, NoParams)
       ELSE /\ UNCHANGED <<store, seqStore, added, found, past>>
            /\ lastOp' = Op("clearAll", 0, "", <<>>, "ClosedError", {}, NoParams)
    /\ sent' = Logged(<<AdapterCall("flushAll", "", <<>>, Settled(conn = "open"), <<>>)>>)
    /\ computed' = <<>>
    /\ UNCHANGED <<conn, client, handles, asked, memo, run, calls, pipes, hist>>

\* client.close(): quits the connection; on a closed connection quit rejects.
Close ==
    /\ conn # "none"
    /\ IF conn = "open"
       THEN /\ conn' = "closed"
            /\ lastOp' = Op("close", 0, "", <<>>, "ok", {}, NoParams)
       ELSE /\ UNCHANGED conn
            /\ lastOp' = Op("close", 0, "", <<>>, "ClosedError", {}, NoParams)
    /\ sent' = Logged(<<AdapterCall("close", "", <<>>, Settled(conn = "open"), <<>>)>>)
    /\ computed' = <<>>
    /\ UNCHANGED <<client, handles, store, asked, added, seqStore, memo, run, found, calls, pipes, hist, past>>

Next ==
    \/ \E p \in CreateParams, reachable \in BOOLEAN : Create(p, reachable)
    \/ \E name \in Names : Get(name)
    \/ \E h \in HandleIds, items \in ItemLists, transport \in Transport :
          Add(h, items, transport)
    \/ \E h \in HandleIds, items \in ItemLists, transport \in Transport :
          ExtractContainedItems(h, items, transport)
    \/ \E name \in Names : Clear(name)
    \/ ClearAll
    \/ Close

\* The program, keeping the short history only.
Spec == Init /\ [][Next]_vars

\* The same program, keeping the long history too.
SpecHist == InitHist /\ [][Next]_vars

\* The same program, logging what every call computes and sends.
SpecLog == InitLog /\ [][Next]_vars

\* The same program, keeping the memo of computed positions.
SpecMemo == InitMemo /\ [][Next]_vars

\* The same program on a transport that may lose a batch or its reply.
SpecLossy == InitLossy /\ [][Next]_vars

\* The same program, keeping what the queries have returned.
SpecFound == InitFound /\ [][Next]_vars

\* -------------------------------------------------------- overlapping calls

\* The calls whose promise has not settled.
InFlight == {c \in DOMAIN calls : calls[c].pc # "returned"}

\* A call that has started.  Its position pc is "hashing" while it awaits
\* computeItemBitPositions for item done + 1, "submitted" once it has called
\* exec() or del() and awaits the reply, "served" once the store has run the
\* request, and "returned" once its promise has settled.
Call(kind, handle, name, items, pc, pipe, batch) ==
    [kind |-> kind, handle |-> handle, name |-> name, items |-> items, pc |-> pc,
     done |-> 0, pipe |-> pipe, positions |-> <<>>, batch |-> batch, replies |-> <<>>,
     overlaps |-> InFlight,
     before |-> BitsOf(store, name)]

\* A variant in which every pipeline is the one made first.
pipelineShared(ps) == IF ps = <<>> THEN <<<<>>>> ELSE ps

\* redis.pipeline(): a new multi, with nothing queued.  The pipelines made so
\* far are ps; the new one is the last of the result.
pipeline(ps) == Append(ps, <<>>)

\* filter.add(...items) is called through handle h: it makes its pipeline
\* and awaits the positions of the first item; with no item it calls exec()
\* at once.
CallAdd(h, items) ==
    /\ conn = "open"
    /\ Len(calls) < MaxCalls
    /\ h \in DOMAIN handles
    /\ LET made == pipeline(pipes)
           id == Len(made)
       IN  /\ pipes' = made
           /\ calls' = Append(calls,
                  Call("add", h, handles[h].key, items,
                       IF items = <<>> THEN "submitted" ELSE "hashing", id, made[id]))
    /\ UNCHANGED <<conn, client, handles, store, lastOp, sent, computed, asked, added,
                   seqStore, memo, run, found, hist, past>>

\* filter.extractContainedItems(...items) is called through handle h: it
\* awaits the positions of the first item; with no item it makes its
\* pipeline and calls exec() at once.
CallExtractContainedItems(h, items) ==
    /\ conn = "open"
    /\ Len(calls) < MaxCalls
    /\ h \in DOMAIN handles
    /\ IF items = <<>>
       THEN LET made == pipeline(pipes)
                id == Len(made)
            IN  /\ pipes' = made
                /\ calls' = Append(calls,
                       Call("extractContainedItems", h, handles[h].key, items,
                            "submitted", id, made[id]))
       ELSE /\ calls' = Append(calls,
                   Call("extractContainedItems", h, handles[h].key, items,
                        "hashing", 0, <<>>))
            /\ UNCHANGED pipes
    /\ UNCHANGED <<conn, client, handles, store, lastOp, sent, computed, asked, added,
                   seqStore, memo, run, found, hist, past>>

\* client.clear(name) is called: it calls del() and awaits the reply.
CallClear(name) ==
    /\ conn = "open"
    /\ Len(calls) < MaxCalls
    /\ calls' = Append(calls, Call("clear", 0, name, <<>>, "submitted", 0, <<>>))
    /\ UNCHANGED <<conn, client, handles, store, lastOp, sent, computed, asked, added,
                   seqStore, memo, run, found, pipes, hist, past>>

\* A variant of Resume in which add sends the setBits of an item to the
\* store as it queues them.
ResumeSendingAtOnce(c) ==
    /\ c \in DOMAIN calls
    /\ calls[c].pc = "hashing"
    /\ LET call == calls[c]
           filter == handles[call.handle]
           item == call.items[call.done + 1]
           last == call.done + 1 = Len(call.items)
       IN  IF call.kind = "add"
           THEN /\ pipes' = [pipes EXCEPT ![call.pipe] = @ \o SetBitOps(filter, item)]
                /\ store' = exec(store, SetBitOps(filter, item)).store
                /\ calls' = [calls EXCEPT ![c].done = @ + 1,
                                          ![c].pc = IF last THEN "submitted" ELSE "hashing",
                                          ![c].batch = <<>>]
           ELSE LET arr == ArrayFromSet({}, call.positions \o PositionsOf(filter, item))
                    made == pipeline(pipes)
                    id == Len(made)
                    queue == made[id] \o [i \in DOMAIN arr |-> GetBitOp(filter.key, arr[i])]
                IN  /\ store' = store
                    /\ IF last
                       THEN /\ pipes' = [made EXCEPT ![id] = queue]
                            /\ calls' = [calls EXCEPT ![c].done = @ + 1,
                                                      ![c].positions = arr,
                                                      ![c].pc = "submitted",
                                                      ![c].pipe = id,
                                                      ![c].batch = queue]
                       ELSE /\ UNCHANGED pipes
                            /\ calls' = [calls EXCEPT ![c].done = @ + 1,
                                                      ![c].positions = arr]
    /\ UNCHANGED <<conn, client, handles, lastOp, sent, computed, asked, added,
                   seqStore, memo, run, found, hist, past>>

\* The await of computeItemBitPositions for the next item of call c is over.
\* add queues the item's setBits on its pipeline; extractContainedItems adds
\* the item's positions to positionsToKnow.  After the last item the call
\* goes on without another await: extractContainedItems makes its pipeline
\* and queues one getBit per position, and both call exec(), which submits
\* what the pipeline then holds.
Resume(c) ==
    /\ c \in DOMAIN calls
    /\ calls[c].pc = "hashing"
    /\ LET call == calls[c]
           filter == handles[call.handle]
           item == call.items[call.done + 1]
           last == call.done + 1 = Len(call.items)
       IN  IF call.kind = "add"
           THEN LET queue == pipes[call.pipe] \o SetBitOps(filter, item)
                IN  /\ pipes' = [pipes EXCEPT ![call.pipe] = queue]
                    /\ calls' = [calls EXCEPT ![c].done = @ + 1,
                                              ![c].pc = IF last THEN "submitted" ELSE "hashing",
                                              ![c].batch = IF last THEN queue ELSE <<>>]
           ELSE LET arr == ArrayFromSet({}, call.positions \o PositionsOf(filter, item))
                    made == pipeline(pipes)
                    id == Len(made)
                    queue == made[id] \o [i \in DOMAIN arr |-> GetBitOp(filter.key, arr[i])]
                IN  IF last
                    THEN /\ pipes' = [made EXCEPT ![id] = queue]
                         /\ calls' = [calls EXCEPT ![c].done = @ + 1,
                                                   ![c].positions = arr,
                                                   ![c].pc = "submitted",
                                                   ![c].pipe = id,
                                                   ![c].batch = queue]
                    ELSE /\ UNCHANGED pipes
                         /\ calls' = [calls EXCEPT ![c].done = @ + 1,
                                                   ![c].positions = arr]
    /\ UNCHANGED <<conn, client, handles, store, lastOp, sent, computed, asked, added,
                   seqStore, memo, run, found, hist, past>>

\* A variant of Serve in which the store runs a batch one operation at a
\* time, other requests in between, and not as one transaction.
ServeOneByOne(c) ==
    /\ c \in DOMAIN calls
    /\ calls[c].pc = "submitted"
    /\ IF calls[c].kind = "clear"
       THEN /\ store' = del(store, calls[c].name)
            /\ calls' = [calls EXCEPT ![c].pc = "served",
                                      ![c].replies = <<delReply(store, calls[c].name)>>]
       ELSE IF Len(calls[c].replies) = Len(calls[c].batch)
            THEN /\ store' = store
                 /\ calls' = [calls EXCEPT ![c].pc = "served"]
            ELSE LET ran == exec(store, <<calls[c].batch[Len(calls[c].replies) + 1]>>)
                 IN  /\ store' = ran.store
                     /\ calls' = [calls EXCEPT ![c].replies = @ \o ran.replies]
    /\ UNCHANGED <<conn, client, handles, lastOp, sent, computed, asked, added,
                   seqStore, memo, run, found, pipes, hist, past>>

\* A variant of Serve in which the batch of an add is run on the bitmap the
\* add saw when it was called, which then replaces the bitmap of the key.
ServeOnBitmapSeen(c) ==
    /\ c \in DOMAIN calls
    /\ calls[c].pc = "submitted"
    /\ IF calls[c].kind = "clear"
       THEN /\ store' = del(store, calls[c].name)
            /\ calls' = [calls EXCEPT ![c].pc = "served",
                                      ![c].replies = <<delReply(store, calls[c].name)>>]
       ELSE LET seen == IF calls[c].kind = "add" /\ calls[c].before # {}
                        THEN [store EXCEPT ![calls[c].name] = calls[c].before]
                        ELSE IF calls[c].kind = "add"
                             THEN del(store, calls[c].name)
                             ELSE store
                ran == exec(seen, calls[c].batch)
            IN  /\ store' = ran.store
                /\ calls' = [calls EXCEPT ![c].pc = "served", ![c].replies = ran.replies]
    /\ UNCHANGED <<conn, client, handles, lastOp, sent, computed, asked, added,
                   seqStore, memo, run, found, pipes, hist, past>>

\* The store runs the request of call c: the batch of an exec() as one
\* transaction (MULTI ... EXEC), or the DEL of a clear.
Serve(c) ==
    /\ c \in DOMAIN calls
    /\ calls[c].pc = "submitted"
    /\ IF calls[c].kind = "clear"
       THEN /\ store' = del(store, calls[c].name)
            /\ calls' = [calls EXCEPT ![c].pc = "served",
                                      ![c].replies = <<delReply(store, calls[c].name)>>]
       ELSE LET ran == exec(store, calls[c].batch)
            IN  /\ store' = ran.store
                /\ calls' = [calls EXCEPT ![c].pc = "served", ![c].replies = ran.replies]
    /\ UNCHANGED <<conn, client, handles, lastOp, sent, computed, asked, added,
                   seqStore, memo, run, found, pipes, hist, past>>

\* The reply has arrived and the promise of call c settles; an
\* extractContainedItems reads the replies and returns the matched items.
\* What the call held is gone with it.
Return(c) ==
    /\ c \in DOMAIN calls
    /\ calls[c].pc = "served"
    /\ LET call == calls[c]
       IN  lastOp' = Op(call.kind, call.handle, call.name, call.items, "ok",
                        IF call.kind = "extractContainedItems"
                        THEN matchedItems(handles[call.handle], call.items,
                                          setPositionsOf(call.positions, call.replies))
                        ELSE {},
                        NoParams)
    /\ calls' = [calls EXCEPT ![c].pc = "returned", ![c].positions = <<>>,
                              ![c].batch = <<>>, ![c].replies = <<>>]
    /\ UNCHANGED <<conn, client, handles, store, sent, computed, asked, added,
                   seqStore, memo, run, found, pipes, hist, past>>

\* The argument lists of the calls that overlap: one item, and two items,
\* whose positions are computed at two awaits.
OverlappingItemLists == { <<"baz">>, <<"foo", "bar">> }

\* The state after a create() that succeeded, for any of the parameters, and
\* a get() of each name.
InitOverlapping ==
    /\ conn = "open"
    /\ client \in {<<create(p)>> : p \in CreateParams}
    /\ handles = <<get(client[1], "A"), get(client[1], "B")>>
    /\ store = EmptyStore
    /\ lastOp = Op("none", 0, "", <<>>, "ok", {}, NoParams)
    /\ sent = <<>>
    /\ computed = <<>>
    /\ asked = <<"A", "B">>
    /\ added = NoneAdded
    /\ seqStore = EmptyStore
    /\ memo = NoMemo
    /\ run = PlainRun
    /\ found = NoneAdded
    /\ calls = <<>>
    /\ pipes = <<>>
    /\ hist = FALSE
    /\ past = NoPast

NextOverlapping ==
    \/ \E h \in HandleIds, items \in OverlappingItemLists : CallAdd(h, items)
    \/ \E h \in HandleIds, items \in OverlappingItemLists :
          CallExtractContainedItems(h, items)
    \/ \E name \in Names : CallClear(name)
    \/ \E c \in 1..MaxCalls : Resume(c)
    \/ \E c \in 1..MaxCalls : Serve(c)
    \/ \E c \in 1..MaxCalls : Return(c)

\* The program with calls that overlap: a call is suspended at each of its
\* awaits, and the store serves the requests in any order.
SpecOverlapping == InitOverlapping /\ [][NextOverlapping]_vars

\* ----------------------------------------------------------------- claims

Succeeded(kind) == lastOp.kind = kind /\ lastOp.outcome = "ok"

\* The items all of whose positions are 1 in the bitmap of the handle's key.
AllBitsSet(filter, s, items) ==
    {x \in ItemSet(items) :
        \A n \in DOMAIN PositionsOf(filter, x) :
            PositionsOf(filter, x)[n] \in BitsOf(s, filter.key)}

\* C1: no false negatives.  An extractContainedItems call that succeeds
\* returns every one of its items that a successful add put under the same
\* name since that name was last cleared (by clear or clearAll), whatever
\* other calls came in between.
NoFalseNegatives ==
    Succeeded("extractContainedItems") =>
        (ItemSet(lastOp.items) \cap added[lastOp.name]) \subseteq lastOp.result

\* C1 happens: a query of foo, bar, baz after foo and bar were added returns
\* foo and bar and not baz.
NoFalseNegativesSeen ==
    /\ Succeeded("extractContainedItems")
    /\ lastOp.items = <<"foo", "bar", "baz">>
    /\ added[lastOp.name] = {"foo", "bar"}
    /\ lastOp.result = {"foo", "bar"}

\* C2: clear resets membership.  A successful extractContainedItems on a name
\* whose last write was a clear (no add since) returns none of the items ever
\* added under that name, and returns the empty set when hashesPerItem >= 1.
ClearResetsMembership ==
    (Succeeded("extractContainedItems") /\ past[lastOp.name].last = "clear") =>
        /\ lastOp.result \cap past[lastOp.name].items = {}
        /\ handles[lastOp.handle].hashesPerItem >= 1 => lastOp.result = {}

\* C3: extractContainedItems returns exactly the items all of whose positions
\* are 1 in the bitmap of the filter's key at the time of the call; so an item
\* with an unset position is not returned and the result is a subset of the
\* items given.
ExtractIsExact ==
    Succeeded("extractContainedItems") =>
        /\ lastOp.result = AllBitsSet(handles[lastOp.handle], store, lastOp.items)
        /\ lastOp.result \subseteq ItemSet(lastOp.items)

\* C3 happens: a query returns some of its items and leaves out another.
ExtractIsExactSeen ==
    /\ Succeeded("extractContainedItems")
    /\ lastOp.result # {}
    /\ lastOp.result # ItemSet(lastOp.items)

\* What every handle for a name returns when asked for all the items.
Answers(s, name) ==
    [h \in {i \in DOMAIN handles : asked[i] = name} |->
        extractContainedItems(handles[h], s, <<"foo", "bar", "baz">>)]

\* C4: independence of named filters.  A step that is an add through a handle
\* for name A, or a clear(A), leaves the key and the bitmap of every other
\* name B as they were, and so the answers of every query under B.
NamedFiltersIndependent ==
    [][(lastOp'.kind \in {"add", "clear"}) =>
        \A b \in Names \ {lastOp'.name} :
            /\ (b \in DOMAIN store') = (b \in DOMAIN store)
            /\ BitsOf(store', b) = BitsOf(store, b)
            /\ store' # store => Answers(store', b) = Answers(store, b)]_vars

\* C4 happens: baz has just been added under A while B holds the bits of foo
\* only, which a handle for B reports.
NamedFiltersIndependentSeen ==
    /\ Succeeded("add")
    /\ lastOp.name = "A"
    /\ lastOp.items = <<"baz">>
    /\ added["B"] = {"foo"}
    /\ BitsOf(store, "A") # BitsOf(store, "B")
    /\ \E h \in DOMAIN handles :
          /\ asked[h] = "B"
          /\ extractContainedItems(handles[h], store, <<"foo", "baz">>) = {"foo"}

\* C5: handle aliasing.  All handles asked for one name hold the same key,
\* and every one of them, whenever it was obtained, is answered with every
\* item added under the name through any handle since the name's last clear.
HandleAliasing ==
    \A h \in DOMAIN handles :
        /\ \A g \in DOMAIN handles : asked[g] = asked[h] => handles[g].key = handles[h].key
        /\ \A items \in ItemLists :
              (ItemSet(items) \cap added[asked[h]])
                  \subseteq extractContainedItems(handles[h], store, items)

\* C5 happens: baz alone has been added under a name since its last clear,
\* the add that has just succeeded went through the second handle for the
\* name, and the first handle for the name is answered with baz.
HandleAliasingSeen ==
    /\ Succeeded("add")
    /\ lastOp.handle = 2
    /\ asked[1] = asked[2]
    /\ lastOp.items = <<"baz">>
    /\ added[lastOp.name] = {"baz"}
    /\ extractContainedItems(handles[1], store, <<"foo", "bar", "baz">>) = {"baz"}

\* C6: batch equivalence.  The store reached by the calls made is the store
\* reached when every add(x1, .., xn) is made as add(x1); ..; add(xn), and
\* every query is answered alike on both.
BatchEquivalence ==
    /\ store = seqStore
    /\ \A n \in Names : Answers(store, n) = Answers(seqStore, n)

\* C6 happens: an add of two items has just set bits of both.
BatchEquivalenceSeen ==
    /\ Succeeded("add")
    /\ lastOp.items = <<"foo", "bar">>
    /\ AllBitsSet(handles[lastOp.handle], store, <<"foo", "bar">>) = {"foo", "bar"}
    /\ BitsOf(store, handles[lastOp.handle].key) # {}

NonPositive(value) == value # Undefined /\ value[1] <= 0

\* C8: create rejects a non-positive bloomFilterSizeInBits or hashesPerItem:
\* no client is returned, and the error is a ConfigurationError (where the
\* server was reached at all).
CreateRejectsNonPositive ==
    (lastOp.kind = "create"
        /\ (NonPositive(lastOp.params.bloomFilterSizeInBits)
            \/ NonPositive(lastOp.params.hashesPerItem))) =>
        /\ lastOp.outcome \in {"ConfigurationError", "ConnectionError"}
        /\ conn = "none"
        /\ client = <<>>

\* C9: clearAll deletes every key of the store, and a successful
\* extractContainedItems on a name whose last write was a clearAll returns
\* none of the items ever added under that name.
ClearAllRemovesEverything ==
    /\ Succeeded("clearAll") => DOMAIN store = {}
    /\ (Succeeded("extractContainedItems") /\ past[lastOp.name].last = "clearAll") =>
          lastOp.result \cap past[lastOp.name].items = {}

\* C10: clear is idempotent.  On an open connection clear succeeds whether or
\* not the key exists; on a missing key it leaves the store unchanged, and a
\* clear right after a successful clear of the same name leaves it unchanged.
ClearIdempotent ==
    [][lastOp'.kind = "clear" =>
        /\ conn = "open" => lastOp'.outcome = "ok"
        /\ lastOp'.name \notin DOMAIN store => store' = store
        /\ (Succeeded("clear") /\ lastOp.name = lastOp'.name) => store' = store
        /\ conn = "open" => lastOp'.name \notin DOMAIN store']_vars

\* C10 happens: a clear of A has succeeded although no handle for A was ever
\* obtained, so that A never had a key, and the key of B is still there.
ClearIdempotentSeen ==
    /\ Succeeded("clear")
    /\ lastOp.name = "A"
    /\ \A h \in DOMAIN handles : asked[h] = "B"
    /\ DOMAIN store = {"B"}

\* C11: a transport failure of the batch fails the whole call.  When the
\* exec() of an add or extractContainedItems rejects on an open connection,
\* the call fails with a StoreUnavailableError (the rejection, passed on
\* unchanged), extractContainedItems returns no set, and the call has
\* submitted that one batch only; no call fails so for another reason.
PipelineFailureFailsCall ==
    /\ \A c \in DOMAIN sent :
          (sent[c].method = "exec" /\ sent[c].settled = "rejected" /\ conn = "open") =>
              /\ lastOp.kind \in {"add", "extractContainedItems"}
              /\ lastOp.outcome = "StoreUnavailableError"
              /\ lastOp.result = {}
              /\ Len(sent) = 1
    /\ lastOp.outcome = "StoreUnavailableError" =>
          /\ Len(sent) = 1
          /\ sent[1].method = "exec"
          /\ sent[1].settled = "rejected"

\* C11 happens: a query of foo, bar, baz has failed in transport while the
\* bits of foo and bar are set; it has returned nothing and sent one batch.
PipelineFailureSeen ==
    /\ lastOp.kind = "extractContainedItems"
    /\ lastOp.outcome = "StoreUnavailableError"
    /\ lastOp.items = <<"foo", "bar", "baz">>
    /\ AllBitsSet(handles[lastOp.handle], store, lastOp.items) = {"foo", "bar"}
    /\ lastOp.result = {}
    /\ Len(sent) = 1

\* C12: zero items.  On an open connection add() succeeds and leaves the
\* store as it was, so that no key is created, and extractContainedItems()
\* succeeds and returns the empty set.
ZeroItemsNoOp ==
    [][(conn = "open" /\ lastOp'.items = <<>>) =>
        /\ lastOp'.kind = "add" => (lastOp'.outcome = "ok" /\ store' = store)
        /\ lastOp'.kind = "extractContainedItems" =>
              (lastOp'.outcome = "ok" /\ lastOp'.result = {})]_vars

\* C12 happens: an add of no item through a handle whose key does not exist
\* has succeeded, and the key still does not exist while another does.
ZeroItemsSeen ==
    /\ Succeeded("add")
    /\ lastOp.items = <<>>
    /\ handles[lastOp.handle].key \notin DOMAIN store
    /\ DOMAIN store # {}

\* C13: get is local.  A get makes no call on the adapter and leaves the store
\* as it was; a key comes into existence only by an add under that name whose
\* batch sets a bit of the key.
GetIsLocal ==
    [][/\ lastOp'.kind = "get" => (sent' = <<>> /\ store' = store)
       /\ \A n \in DOMAIN store' \ DOMAIN store :
             /\ lastOp'.kind = "add"
             /\ lastOp'.name = n
             /\ BitsOf(store', n) # {}
             /\ \E j \in DOMAIN sent'[1].queue :
                   /\ sent'[1].queue[j].op = "setBit"
                   /\ sent'[1].queue[j].key = n
                   /\ sent'[1].queue[j].value = 1]_vars

\* C13 happens: a handle has just been obtained on an open connection for a
\* name that has no key, while the other name has one.
GetIsLocalSeen ==
    /\ Succeeded("get")
    /\ conn = "open"
    /\ lastOp.name \notin DOMAIN store
    /\ DOMAIN store # {}

FormulaPosition(h1, i, h2, m) ==
    LET low24(x) == (x[1] % 256) * Half + x[2]
        top8(x) == x[1] \div 256
        low == low24(h1) + i * low24(h2)
        top == (top8(h1) + i * top8(h2) + (low \div (256 * Half))) % 256
    IN  (top * ((256 * Half) % m) + (low % (256 * Half))) % m

\* C15: the position formula.  For every item a call computes positions for,
\* with h1 = hashFunction1(item) and h2 = hashFunction2(item), the positions
\* are the sequence whose element of round i = 0 .. hashesPerItem - 1 is
\* ((h1 + i * h2) mod 2^32) mod sizeInBits, in that order, duplicates kept.
PositionFormula ==
    \A i \in DOMAIN computed :
        LET filter == handles[lastOp.handle]
            h1 == ApplyHash(filter.hashFunction1, lastOp.items[i])
            h2 == ApplyHash(filter.hashFunction2, lastOp.items[i])
        IN  /\ DOMAIN computed[i] = 1..filter.hashesPerItem
            /\ \A n \in 1..filter.hashesPerItem :
                  computed[i][n] = FormulaPosition(h1, n - 1, h2, filter.sizeInBits)

\* C15 happens: with 7 bits and 2 hashes, foo (whose second round wraps
\* around 2^32) has positions 3, 2 and bar has the position 5 twice.
PositionFormulaSeen ==
    /\ lastOp.kind = "add"
    /\ lastOp.items = <<"foo", "bar">>
    /\ computed = << <<3, 2>>, <<5, 5>> >>

\* C16: offsets in range.  Every offset of a queued setBit or getBit lies in
\* 0 .. sizeInBits - 1, every item contributes exactly hashesPerItem
\* positions, and no bit at an offset >= sizeInBits is set in any bitmap.
OffsetsInRange ==
    /\ \A c \in DOMAIN sent : \A j \in DOMAIN sent[c].queue :
          sent[c].queue[j].offset \in 0..(client[1].bloomFilterSizeInBits - 1)
    /\ \A i \in DOMAIN computed :
          Len(computed[i]) = handles[lastOp.handle].hashesPerItem
    /\ \A k \in DOMAIN store : \A b \in store[k] :
          b < client[1].bloomFilterSizeInBits

RECURSIVE Flatten(_)
Flatten(seqs) == IF seqs = <<>> THEN <<>> ELSE Head(seqs) \o Flatten(Tail(seqs))

\* C17: one batch per add.  An add makes exactly one call on the adapter, an
\* exec, whose queue is, item by item and position by position, one setBit
\* to 1 on the handle's key; so its length is the number of items times the
\* number of positions of an item.
AddSubmitsOneBatch ==
    lastOp.kind = "add" =>
        /\ Len(sent) = 1
        /\ sent[1].method = "exec"
        /\ LET filter == handles[lastOp.handle]
               want == Flatten(computed)
               perItem == IF filter.hashesPerItem > 0 THEN filter.hashesPerItem ELSE 0
           IN  /\ Len(sent[1].queue) = Len(lastOp.items) * perItem
               /\ Len(sent[1].queue) = Len(want)
               /\ \A j \in DOMAIN want :
                     sent[1].queue[j] =
                         [op |-> "setBit", key |-> filter.key, offset |-> want[j], value |-> 1]

\* C17 happens: an add of three items with three hashes each has succeeded
\* with one batch of nine operations.
AddSubmitsOneBatchSeen ==
    /\ Succeeded("add")
    /\ lastOp.items = <<"foo", "bar", "baz">>
    /\ Len(sent) = 1
    /\ Len(sent[1].queue) = 9

\* C18: one deduplicated batch per extractContainedItems.  The call makes
\* exactly one call on the adapter, an exec, whose queue holds one getBit on
\* the handle's key for each distinct position of the items and none twice;
\* reply i is the bit of queued position i, and an item is returned exactly
\* when every one of its positions is a queued position whose reply is 1.
ExtractSubmitsOneBatch ==
    lastOp.kind = "extractContainedItems" =>
        /\ Len(sent) = 1
        /\ sent[1].method = "exec"
        /\ LET filter == handles[lastOp.handle]
               q == sent[1].queue
               r == sent[1].replies
           IN  /\ \A j \in DOMAIN q : q[j].op = "getBit" /\ q[j].key = filter.key
               /\ \A j, k \in DOMAIN q : q[j].offset = q[k].offset => j = k
               /\ {q[j].offset : j \in DOMAIN q} =
                     {computed[i][n] : i \in DOMAIN computed, n \in 1..filter.hashesPerItem}
               /\ lastOp.outcome = "ok" =>
                     /\ DOMAIN r = DOMAIN q
                     /\ \A j \in DOMAIN q : r[j] = getBit(store, filter.key, q[j].offset)
                     /\ lastOp.result =
                           {lastOp.items[i] : i \in {a \in DOMAIN computed :
                               \A n \in DOMAIN computed[a] :
                                   \E j \in DOMAIN q :
                                       q[j].offset = computed[a][n] /\ r[j] = 1}}

\* C18 happens: with 7 bits and 2 hashes a query of foo, bar, baz, whose six
\* positions are 3, 2, 5, 5, 2, 5, sends three getBits; baz alone was added,
\* and the replies 0, 1, 1 are read as bar and baz.
ExtractSubmitsOneBatchSeen ==
    /\ Succeeded("extractContainedItems")
    /\ lastOp.items = <<"foo", "bar", "baz">>
    /\ Flatten(computed) = <<3, 2, 5, 5, 2, 5>>
    /\ Len(sent[1].queue) = 3
    /\ sent[1].replies = <<0, 1, 1>>
    /\ lastOp.result = {"bar", "baz"}

\* Calls a and c were in flight at the same time.
Overlap(a, c) == a \in calls[c].overlaps \/ c \in calls[a].overlaps

\* The calls that write to the key of name n.
Writers(n) == {w \in DOMAIN calls : calls[w].name = n /\ calls[w].kind \in {"add", "clear"}}

\* An add a and a clear c of one name that overlapped and have both
\* returned, every other writer to the name having returned before either of
\* them was called.
RacePair(a, c) ==
    /\ calls[a].kind = "add"
    /\ calls[c].kind = "clear"
    /\ calls[a].name = calls[c].name
    /\ calls[a].pc = "returned"
    /\ calls[c].pc = "returned"
    /\ Overlap(a, c)
    /\ \A w \in Writers(calls[a].name) \ {a, c} :
          /\ w < a
          /\ w < c
          /\ ~Overlap(w, a)
          /\ ~Overlap(w, c)

\* The positions of all the given items.
BitsOfItems(filter, items) ==
    UNION {{PositionsOf(filter, items[i])[n] : n \in DOMAIN PositionsOf(filter, items[i])} :
               i \in DOMAIN items}

\* C19: an add racing with a clear.  After an add and a clear of the same
\* name that overlapped, with no other writer, have both returned, the key is
\* deleted or its bitmap holds exactly the bits of the items added: never a
\* strict non-empty part of them, never a bit set only before the clear.
AddClearRace ==
    \A a, c \in DOMAIN calls :
        RacePair(a, c) =>
            \/ calls[a].name \notin DOMAIN store
            \/ BitsOf(store, calls[a].name) =
                  BitsOfItems(handles[calls[a].handle], calls[a].items)

\* C19 happens: an add of foo, bar and a clear have raced on a key that held
\* other bits; the bitmap holds the bits of foo and bar and no bit of before.
AddClearRaceSeen ==
    \E a, c \in DOMAIN calls :
        /\ RacePair(a, c)
        /\ calls[a].items = <<"foo", "bar">>
        /\ calls[a].before # {}
        /\ calls[c].before # {}
        /\ BitsOf(store, calls[a].name) # {}
        /\ BitsOf(store, calls[a].name) \cap (calls[a].before \cup calls[c].before) = {}

\* C20: a pipeline of its own per call.  Whatever calls overlap, the pipeline
\* of an add holds exactly the setBits of the items the add has got to, the
\* batch an add or an extractContainedItems submits is exactly the operations
\* of its own items, and no two calls hold the same pipeline.
OwnPipelinePerCall ==
    \A c \in DOMAIN calls :
        LET call == calls[c]
            filter == handles[call.handle]
        IN  /\ call.kind = "add" =>
                  /\ pipes[call.pipe] = addPipeline(filter, SubSeq(call.items, 1, call.done))
                  /\ call.pc \in {"submitted", "served"} =>
                        call.batch = addPipeline(filter, call.items)
            /\ (call.kind = "extractContainedItems" /\ call.pc \in {"submitted", "served"}) =>
                  /\ call.batch = extractPipeline(filter, call.items)
                  /\ pipes[call.pipe] = call.batch
            /\ call.pipe # 0 =>
                  \A d \in DOMAIN calls \ {c} : calls[d].pipe # call.pipe

\* C20 happens: two adds are suspended at the await for their second item,
\* and an extractContainedItems that was called between them has submitted
\* its batch; each pipeline holds what its own call queued.
OwnPipelineSeen ==
    /\ Len(calls) = 3
    /\ calls[1].kind = "add"
    /\ calls[1].pc = "hashing"
    /\ calls[1].done = 1
    /\ calls[2].kind = "extractContainedItems"
    /\ calls[2].pc = "submitted"
    /\ calls[2].batch # <<>>
    /\ calls[3].kind = "add"
    /\ calls[3].pc = "hashing"
    /\ calls[3].done = 1
    /\ calls[3].handle = calls[1].handle
    /\ pipes[calls[1].pipe] # <<>>
    /\ pipes[calls[3].pipe] # <<>>

\* The four bytes of a word, least significant first.
WordBytes(w) == <<w[2] % 256, w[2] \div 256, w[1] % 256, w[1] \div 256>>

\* The clients create() returns when no hash function is supplied.
DefaultHashClients ==
    {create(p) : p \in {q \in CreateParams :
        q.hashFunction1 = "undefined" /\ q.hashFunction2 = "undefined"}}

\* C21: the default hash functions.  For a client created with no hash
\* function supplied, hashFunction1(item) is the word whose bytes, least
\* significant first, are bytes 0..3 of the SHA-256 digest of the item, and
\* hashFunction2(item) the word whose bytes are bytes 4..7 of the same
\* digest; the two windows share no byte; every handle of the client holds
\* these two functions, and the positions a call computes are those of the
\* position formula on these two words.
DefaultHashesFromDigest ==
    \A c \in DOMAIN client :
        client[c] \in DefaultHashClients =>
            /\ \A x \in Items :
                  /\ WordBytes(ApplyHash(client[c].hashFunction1, x)) = SubSeq(Sha256Digest(x), 1, 4)
                  /\ WordBytes(ApplyHash(client[c].hashFunction2, x)) = SubSeq(Sha256Digest(x), 5, 8)
            /\ (1..4) \cap (5..8) = {}
            /\ \A h \in DOMAIN handles :
                  /\ handles[h].hashFunction1 = client[c].hashFunction1
                  /\ handles[h].hashFunction2 = client[c].hashFunction2
            /\ \A i \in DOMAIN computed : \A n \in DOMAIN computed[i] :
                  LET d == Sha256Digest(lastOp.items[i])
                  IN  computed[i][n] =
                          FormulaPosition(U32(d[3] + 256 * d[4], d[1] + 256 * d[2]), n - 1,
                                          U32(d[7] + 256 * d[8], d[5] + 256 * d[6]),
                                          handles[lastOp.handle].sizeInBits)

\* C21 happens: with no parameter supplied, foo, whose digest starts with the
\* bytes 2c 26 b4 6b 68 ff c6 8f, has h1 = 0x6bb4262c, h2 = 0x8fc6ff68 and
\* the positions 8364, 1764, 7868 among 10000 bits.
DefaultHashesSeen ==
    /\ Succeeded("add")
    /\ lastOp.items = <<"foo">>
    /\ client[1] \in DefaultHashClients
    /\ ApplyHash(client[1].hashFunction1, "foo") = U32(27572, 9772)
    /\ ApplyHash(client[1].hashFunction2, "foo") = U32(36806, 65384)
    /\ computed = << <<8364, 1764, 7868>> >>

\* Two adds a, b of one name that overlapped, a called first, and have both
\* returned, every other writer to the name having returned before either of
\* them was called (so that no clear ran meanwhile or since).
AddPair(a, b) ==
    /\ a < b
    /\ calls[a].kind = "add"
    /\ calls[b].kind = "add"
    /\ calls[a].name = calls[b].name
    /\ calls[a].pc = "returned"
    /\ calls[b].pc = "returned"
    /\ Overlap(a, b)
    /\ \A w \in Writers(calls[a].name) \ {a, b} :
          /\ w < a
          /\ ~Overlap(w, a)
          /\ ~Overlap(w, b)

\* C22: concurrent adds commute.  After two adds of the same name that
\* overlapped, with no other writer meanwhile, have both returned, the bitmap
\* of the name is the bitmap of before the first was called together with
\* the positions of the items of both, whichever batch the store ran first;
\* so a query of any items on that bitmap returns every item of both adds.
ConcurrentAddsCommute ==
    \A a, b \in DOMAIN calls :
        AddPair(a, b) =>
            LET filter == handles[calls[a].handle]
                name == calls[a].name
                both == ItemSet(calls[a].items) \cup ItemSet(calls[b].items)
            IN  /\ BitsOf(store, name) =
                      calls[a].before
                          \cup BitsOfItems(filter, calls[a].items)
                          \cup BitsOfItems(handles[calls[b].handle], calls[b].items)
                /\ \A items \in ItemLists :
                      (ItemSet(items) \cap both)
                          \subseteq extractContainedItems(filter, store, items)

\* C22 happens: an add of baz and an add of foo, bar of one name overlapped
\* on a key that held no bit; both have returned, each set bits the other did
\* not, and baz, foo and bar are all found.
ConcurrentAddsSeen ==
    \E a, b \in DOMAIN calls :
        /\ AddPair(a, b)
        /\ calls[a].items = <<"baz">>
        /\ calls[b].items = <<"foo", "bar">>
        /\ calls[a].before = {}
        /\ BitsOfItems(handles[calls[a].handle], calls[a].items)
              \ BitsOfItems(handles[calls[b].handle], calls[b].items) # {}
        /\ BitsOfItems(handles[calls[b].handle], calls[b].items)
              \ BitsOfItems(handles[calls[a].handle], calls[a].items) # {}
        /\ extractContainedItems(handles[calls[a].handle], store, <<"foo", "bar", "baz">>)
              = {"foo", "bar", "baz"}

\* C23: membership is monotone.  Every operation an add queues is a setBit
\* to 1; the bitmap of a name holds every position of every item added under
\* it since it was last cleared (by clear or clearAll), so that no bit has
\* gone from 1 to 0 meanwhile, and holds no other bit; every item a query
\* under the name has returned since then is still matched in the bitmap;
\* and a query that succeeds returns every one of its items that a query
\* under the same name has returned since the name was last cleared.
MembershipMonotone ==
    /\ lastOp.kind = "add" =>
          LET queue == addPipeline(handles[lastOp.handle], lastOp.items)
          IN  \A j \in DOMAIN queue : queue[j].op = "setBit" /\ queue[j].value = 1
    /\ \A c \in DOMAIN client : \A n \in Names :
          /\ BitsOf(store, n) =
                UNION {BitsOfItems(get(client[c], n), <<x>>) : x \in added[n]}
          /\ \A x \in found[n] : x \in AllBitsSet(get(client[c], n), store, <<x>>)
    /\ Succeeded("extractContainedItems") =>
          (found[lastOp.name] \cap ItemSet(lastOp.items)) \subseteq lastOp.result

\* C23 happens: a query of foo has returned foo after foo, bar and baz were
\* added under the name and an earlier query under it had returned foo and
\* bar.
MembershipMonotoneSeen ==
    /\ Succeeded("extractContainedItems")
    /\ lastOp.items = <<"foo">>
    /\ lastOp.result = {"foo"}
    /\ found[lastOp.name] = {"foo", "bar"}
    /\ added[lastOp.name] = {"foo", "bar", "baz"}
    /\ BitsOf(store, lastOp.name) # {}

\* C24: extractContainedItems is read-only.  Every operation it queues is a
\* getBit; the step leaves the store as it was, so that no bitmap changes and
\* no key comes into existence; what it returns is determined by the store
\* alone, so that the same query made again right after it, with no call in
\* between, returns the same set.
ExtractIsReadOnly ==
    [][lastOp'.kind = "extractContainedItems" =>
        /\ \A c \in DOMAIN sent' : \A j \in DOMAIN sent'[c].queue :
              sent'[c].queue[j].op = "getBit"
        /\ store' = store
        /\ DOMAIN store' = DOMAIN store
        /\ lastOp'.outcome = "ok" =>
              /\ lastOp'.result = AllBitsSet(handles[lastOp'.handle], store, lastOp'.items)
              /\ (Succeeded("extractContainedItems")
                    /\ lastOp.name = lastOp'.name
                    /\ lastOp.items = lastOp'.items) =>
                      lastOp'.result = lastOp.result]_vars

\* C24 happens: a query of foo, bar, baz through a handle whose key does not
\* exist has sent its getBits and returned nothing, and the key still does
\* not exist while the other key does.
ExtractIsReadOnlySeen ==
    /\ Succeeded("extractContainedItems")
    /\ lastOp.items = <<"foo", "bar", "baz">>
    /\ Len(sent) = 1
    /\ Len(sent[1].queue) = 9
    /\ lastOp.result = {}
    /\ handles[lastOp.handle].key \notin DOMAIN store
    /\ DOMAIN store # {}

\* An extractContainedItems e and an add a of one name that overlapped, the
\* store having run the batch of e, every other writer to the name having
\* returned before either of them was called.
ReadPair(e, a) ==
    /\ calls[e].kind = "extractContainedItems"
    /\ calls[a].kind = "add"
    /\ calls[e].name = calls[a].name
    /\ calls[e].pc = "served"
    /\ Overlap(e, a)
    /\ \A w \in Writers(calls[a].name) \ {a} :
          /\ w < a
          /\ w < e
          /\ ~Overlap(w, a)
          /\ ~Overlap(w, e)

\* The items all of whose positions are in the given bitmap.
MatchedIn(filter, items, bitmap) ==
    {x \in ItemSet(items) :
        \A n \in DOMAIN PositionsOf(filter, x) : PositionsOf(filter, x)[n] \in bitmap}

\* The adds of the name of query e that overlapped with e.
ConcurrentAdds(e) ==
    {a \in DOMAIN calls :
        calls[a].kind = "add" /\ calls[a].name = calls[e].name /\ Overlap(a, e)}

\* The bitmap of before with the positions of all the items of the adds set.
BitmapWith(before, adds) ==
    before \cup UNION {BitsOfItems(handles[calls[a].handle], calls[a].items) : a \in adds}

\* C25: no partially applied batch is observed.  When the store has run the
\* batch of a query with which no clear of the name overlapped, the replies
\* are the bits of one bitmap: the bitmap as it was when the query was
\* called, with every position of some of the concurrent adds set and no
\* position of the others; never part of the positions of an add.  So the
\* set the query is about to return is the set matched in such a bitmap.
NoPartialBatchObserved ==
    \A e \in DOMAIN calls :
        (/\ calls[e].kind = "extractContainedItems"
         /\ calls[e].pc = "served"
         /\ \A w \in DOMAIN calls :
               (calls[w].kind = "clear" /\ calls[w].name = calls[e].name) => ~Overlap(w, e)) =>
            LET filter == handles[calls[e].handle]
                read == setPositionsOf(calls[e].positions, calls[e].replies)
                queried == {calls[e].positions[i] : i \in DOMAIN calls[e].positions}
                result == matchedItems(filter, calls[e].items, read)
            IN  /\ DOMAIN calls[e].replies = DOMAIN calls[e].positions
                /\ \E ran \in SUBSET ConcurrentAdds(e) :
                      /\ read = BitmapWith(calls[e].before, ran) \cap queried
                      /\ result = MatchedIn(filter, calls[e].items,
                                            BitmapWith(calls[e].before, ran))

\* C25 happens: with the default parameters, where foo and bar share no
\* position, a query of foo, bar was called on an empty filter, an add of foo,
\* bar was called while it was in flight, and the store ran the add's batch
\* and then the query's, which read all six bits as 1.
NoPartialBatchSeen ==
    \E e, a \in DOMAIN calls :
        /\ ReadPair(e, a)
        /\ e < a
        /\ calls[e].items = <<"foo", "bar">>
        /\ calls[a].items = <<"foo", "bar">>
        /\ calls[e].before = {}
        /\ calls[a].before = {}
        /\ BitsOfItems(handles[calls[e].handle], <<"foo">>)
              \cap BitsOfItems(handles[calls[e].handle], <<"bar">>) = {}
        /\ calls[e].replies = <<1, 1, 1, 1, 1, 1>>
        /\ matchedItems(handles[calls[e].handle], calls[e].items,
                        setPositionsOf(calls[e].positions, calls[e].replies)) = {"foo", "bar"}

====
